---- MODULE Spec2Model ----
(***************************************************************************)
(* The sqflite Tizen plugin's connection registry (SqflitePlugin, latest   *)
(* revision in database_manager.h lines 716-1494) and the DatabaseManager  *)
(* objects it owns.  One action per method-call handler; every handler     *)
(* runs to completion before the next one starts (serialized calls).       *)
(*                                                                         *)
(* DatabaseManager's member functions are only declared in the sources     *)
(* (lines 16-62); their behaviour is taken from the specification text     *)
(* and is driven by the engine's answers, which are inputs of the actions. *)
(***************************************************************************)
EXTENDS Integers, Sequences, FiniteSets, TLC

\* ---------------------------------------------------------------- bounds
\* The id allocator is capped: a new (non-recovered) open needs databaseId < MaxId.
MaxId == 2

\* The paths callers use: the two in-memory spellings and two files.
MEMORY_DATABASE_PATH == ":memory:"
FilePaths == {"a.db", "b.db"}
Paths == {"", MEMORY_DATABASE_PATH} \cup FilePaths
\* The handles callers pass: 0 is never allocated.
Handles == 0..MaxId

VARIABLES
  databaseId,             \* SqflitePlugin::databaseId, the incremental id
  databaseMap,            \* handle -> the DatabaseManager object it owns
  singleInstancesByPath,  \* path -> handle
  mgr,                    \* the live DatabaseManager objects, by the id they were built with
  files,                  \* the database files that exist in storage
  crashed,                \* std::terminate was called
  queryAsMapList,         \* SqflitePlugin::queryAsMapList, set by the options call
  last,                   \* the call just handled and the reply it got
  closedHandles,          \* history: handles whose entry close erased
  deletedHandles,         \* history: handles whose entry delete erased
  returned,               \* history: handles some open has returned
  permission,             \* what the permission check answers: "allow" or "deny"
  stmtCache,              \* DatabaseManager::stmtCache of the live managers (LifeSpec)
  dtor,                   \* the ~DatabaseManager() in progress (LifeSpec)
  threads,                \* the open calls in progress, one per thread (RaceSpec)
  request                 \* geolocator's PermissionManager::RequestPermssion call (PermSpec)

vars == <<databaseId, databaseMap, singleInstancesByPath, mgr, files, crashed,
          queryAsMapList, last, closedHandles, deletedHandles, returned,
          permission, stmtCache, dtor, threads, request>>

\* what the handlers, taken as single steps of an allowed caller, leave alone
aux == <<permission, stmtCache, dtor, threads, request>>

\* what only open, close and delete change
registry == <<databaseId, databaseMap, singleInstancesByPath, mgr, files,
              crashed, closedHandles, deletedHandles, returned>>

\* ------------------------------------------------------------ std::map
EmptyMap == [x \in {} |-> 0]
MapFind(m, k) == k \in DOMAIN m
\* std::map::insert keeps an existing entry
MapInsert(m, k, v) ==
  IF k \in DOMAIN m THEN m
  ELSE [x \in DOMAIN m \cup {k} |-> IF x = k THEN v ELSE m[x]]
MapErase(m, k) == [x \in DOMAIN m \ {k} |-> m[x]]

\* ------------------------------------------------------ encodable values
Null == [k |-> "null"]
Int32V(n) == [k |-> "int32", v |-> n]
Int64V(n) == [k |-> "int64", v |-> n]

\* makeOpenResult: {"id": databaseId} plus recoveredInTransaction: true when recovered
makeOpenResult(id, recoveredInTransaction) ==
  [k |-> "open", id |-> Int32V(id), recovered |-> recoveredInTransaction]

\* ------------------------------------------------------------- replies
\* The engine's answers when the call asks the engine nothing.
NoEngine ==
  [exec |-> TRUE, follow |-> TRUE, changes |-> 0, rowid |-> [hi |-> 0, lo |-> 0],
   columns |-> <<>>, rows |-> <<>>]

\* A call record: the method, its arguments (id, path, single, readOnly, sql,
\* params, noResult, continueOnError, operations, and eng: the answers the
\* engine gave during the call), what result-> was given (res, err, errSql,
\* errArgs, value), and what the call did below the handler: ran (the
\* statements run on managers), native ("opened" / "open_failed") and mode
\* (the member function called) when a native open was made, and closeErr (a
\* manager was released and its native close failed).
Call(op, id, path) ==
  [op |-> op, id |-> id, path |-> path, single |-> FALSE, readOnly |-> FALSE,
   sql |-> "", params |-> <<>>, noResult |-> FALSE, continueOnError |-> FALSE,
   operations |-> <<>>, eng |-> NoEngine,
   res |-> "none", err |-> "", errSql |-> "", errArgs |-> <<>>, value |-> Null,
   ran |-> <<>>, native |-> "none", mode |-> "none", closeErr |-> FALSE]

Success(c, v) == [c EXCEPT !.res = "success", !.value = v]
\* (mutant) the lookup failure is reported like an engine error
ErrorClosed_AsNative(c) == [c EXCEPT !.res = "error", !.err = "native"]

\* result->Error(ERROR_DATABASE, ERROR_DATABASE_CLOSED + " " + id)
ErrorClosed(c) == [c EXCEPT !.res = "error", !.err = "database_closed"]
\* result->Error(ERROR_DATABASE, ERROR_OPEN_FAILED + " " + path)
ErrorOpenFailed(c) == [c EXCEPT !.res = "error", !.err = "open_failed"]
\* result->Error(ERROR_DATABASE, e.what())
ErrorNative(c) == [c EXCEPT !.res = "error", !.err = "native"]
\* handleQueryException: the same, with the SQL text and arguments as error data
ErrorQuery(c, sql, sqlParams) ==
  [c EXCEPT !.res = "error", !.err = "native", !.errSql = sql,
            !.errArgs = sqlParams]
NotImplemented(c) == [c EXCEPT !.res = "not_implemented"]

\* ------------------------------------------------- DatabaseManager objects
\* DatabaseManager(aPath, aId, aSingleInstance, aLogLevel) after a successful
\* open()/openReadOnly(): sqliteDatabase is the (non-null) native connection.
NewManager(aPath, aId, aSingleInstance, readOnly) ==
  [path |-> aPath, id |-> aId, singleInstance |-> aSingleInstance,
   readOnly |-> readOnly, sqliteDatabase |-> TRUE]

\* DatabaseManager::open() / openReadOnly(): the engine accepts or rejects the
\* path and mode; a read-only open does not create the file.
OpenSucceeds(path, readOnly, engineOk) ==
  engineOk /\ (readOnly /\ path \in FilePaths => path \in files)

\* open() creates the file of a file-backed database that does not exist yet.
FilesAfterOpen(path, readOnly) ==
  IF ~readOnly /\ path \in FilePaths THEN files \cup {path} ELSE files

\* ~DatabaseManager(): finalizes the statements, then closes the connection.
\* The native close may fail; a destructor cannot hand the error to a catch
\* clause of the handler: it is dropped, or it leaves the destructor and the
\* process is terminated.
CloseOutcomes == {"ok", "error_dropped", "error_terminate"}
Terminates(closeOutcome) == closeOutcome = "error_terminate"
CloseFailed(closeOutcome) == closeOutcome # "ok"

\* The shared_ptr owners left in a handle map: the object dies with its last owner.
Owned(dm, obj) == \E h \in DOMAIN dm : dm[h] = obj
Release(dm, obj) == IF Owned(dm, obj) THEN mgr ELSE MapErase(mgr, obj)

\* ------------------------------------------------------------ the registry
\* (mutant) the empty path is not taken for an in-memory database
isInMemoryPath_NotEmpty(path) == path = MEMORY_DATABASE_PATH

isInMemoryPath(path) == path = "" \/ path = MEMORY_DATABASE_PATH

\* getDatabase: the manager of a handle, 0 for nullptr
getDatabase(id) == IF MapFind(databaseMap, id) THEN databaseMap[id] ELSE 0

\* (mutant) any registered handle on the path, tracked or not
getDatabaseId_AnyHandle(path) ==
  IF \E h \in DOMAIN databaseMap : mgr[databaseMap[h]].path = path
  THEN CHOOSE h \in DOMAIN databaseMap : mgr[databaseMap[h]].path = path
  ELSE 0

\* getDatabaseId: the handle tracked for a path, 0 for nullptr
getDatabaseId(path) ==
  IF MapFind(singleInstancesByPath, path) THEN singleInstancesByPath[path] ELSE 0

\* (mutant) the path lookup finds nothing
FoundSingleInstance_Never(path) == 0

\* OnOpenDatabaseCall, the single-instance lookup: the handle to recover, or 0
FoundSingleInstance(path) ==
  LET foundDatabaseId == getDatabaseId(path)
  IN IF /\ foundDatabaseId # 0
        /\ MapFind(databaseMap, foundDatabaseId)
        /\ mgr[databaseMap[foundDatabaseId]].sqliteDatabase
     THEN foundDatabaseId ELSE 0

\* whether an open takes the recovery path (lines 1245-1258)
Recovers(path, singleInstanceArg) ==
  /\ singleInstanceArg /\ ~isInMemoryPath(path)
  /\ FoundSingleInstance(path) # 0

\* (mutant) the lowest id that no registered handle uses
NextDatabaseId_Reuse ==
  CHOOSE i \in 1..(MaxId + 1) :
    /\ i \notin DOMAIN databaseMap
    /\ \A j \in 1..(i - 1) : j \in DOMAIN databaseMap

\* const int newDatabaseId = ++databaseId;
NextDatabaseId == databaseId + 1

\* singleInstance = singleInstance && !inMemory
EffectiveSingleInstance(path, singleInstance) ==
  singleInstance /\ ~isInMemoryPath(path)

\* (mutant) the path is never recorded
RegisterPath_Skipped(path, singleInstance, id) == singleInstancesByPath

\* the registration of a manager that opened
RegisterPath(path, singleInstance, id) ==
  IF singleInstance THEN MapInsert(singleInstancesByPath, path, id)
  ELSE singleInstancesByPath

\* (mutant) the read-write open whatever was asked
OpenMode_AlwaysReadWrite(readOnly) == "open"

\* if (!readOnly) databaseManager->open(); else databaseManager->openReadOnly();
OpenMode(readOnly) == IF ~readOnly THEN "open" ELSE "openReadOnly"

\* (mutant) the registration precedes open()
Registers_BeforeOpen(opened) == TRUE

\* The registration (lines 1276-1284) follows open() inside the try block: it
\* is reached only when open() returned normally.
Registers(opened) == opened

\* (mutant) registration and reply use the counter as it was before the call
SharedIdAtRegistration_Stale == databaseId

\* the two inserts and the reply name the handle by reading the member
\* databaseId, after ++databaseId, and not the local newDatabaseId
SharedIdAtRegistration == databaseId'

OnOpenDatabaseCall(path, readOnly, singleInstanceArg, engineOk) ==
  LET singleInstance == EffectiveSingleInstance(path, singleInstanceArg)
      c == [Call("open", 0, path) EXCEPT !.single = singleInstanceArg,
                                         !.readOnly = readOnly]
      found == IF singleInstance THEN FoundSingleInstance(path) ELSE 0
  IN IF found # 0
     THEN /\ last' = Success(c, makeOpenResult(found, TRUE))
          /\ returned' = returned \cup {found}
          /\ UNCHANGED <<databaseId, databaseMap, singleInstancesByPath, mgr,
                         files, crashed, closedHandles, deletedHandles,
                         queryAsMapList>>
     ELSE /\ databaseId < MaxId
          /\ databaseId' = NextDatabaseId
          /\ LET newDatabaseId == databaseId'
                 mode == OpenMode(readOnly)
                 asReadOnly == mode = "openReadOnly"
                 opened == OpenSucceeds(path, asReadOnly, engineOk)
                 databaseManager ==
                   [NewManager(path, newDatabaseId, singleInstance, asReadOnly)
                      EXCEPT !.sqliteDatabase = opened]
             IN /\ singleInstancesByPath' =
                     IF Registers(opened)
                     THEN RegisterPath(path, singleInstance, SharedIdAtRegistration)
                     ELSE singleInstancesByPath
                /\ databaseMap' =
                     IF Registers(opened)
                     THEN MapInsert(databaseMap, SharedIdAtRegistration, newDatabaseId)
                     ELSE databaseMap
                \* the manager outlives the try block only as a map entry
                /\ mgr' = IF Registers(opened)
                          THEN MapInsert(mgr, newDatabaseId, databaseManager)
                          ELSE mgr
                /\ files' = IF opened THEN FilesAfterOpen(path, asReadOnly)
                            ELSE files
                /\ IF opened
                   THEN /\ last' = [Success(c, makeOpenResult(SharedIdAtRegistration,
                                                              FALSE))
                                      EXCEPT !.native = "opened", !.mode = mode]
                        /\ returned' = returned \cup {SharedIdAtRegistration}
                   ELSE /\ last' = [ErrorOpenFailed(c)
                                      EXCEPT !.native = "open_failed",
                                             !.mode = mode]
                        /\ returned' = returned
          /\ UNCHANGED <<crashed, closedHandles, deletedHandles, queryAsMapList>>

\* (mutant) the handle's entry is left in the map
CloseEraseHandle_Kept(id) == databaseMap

\* (mutant) the path entry is left in the map
CloseErasePath_Kept(database) == singleInstancesByPath

\* databaseMap.erase(databaseId); if (database->singleInstance) singleInstancesByPath.erase(path)
CloseEraseHandle(id) == MapErase(databaseMap, id)
CloseErasePath(database) ==
  IF mgr[database].singleInstance
  THEN MapErase(singleInstancesByPath, mgr[database].path)
  ELSE singleInstancesByPath

OnCloseDatabaseCall(id, closeOutcome) ==
  LET c == Call("close", id, "")
      database == getDatabase(id)
  IN IF database = 0
     THEN /\ last' = ErrorClosed(c)
          /\ UNCHANGED <<databaseId, databaseMap, singleInstancesByPath, mgr,
                         files, crashed, closedHandles, deletedHandles,
                         returned, queryAsMapList>>
     ELSE /\ databaseMap' = CloseEraseHandle(id)
          /\ singleInstancesByPath' = CloseErasePath(database)
          \* nothing in the try block throws: result->Success() is reached,
          \* and the local shared_ptr releases the manager on return
          /\ last' = [Success(c, Null) EXCEPT
                        !.closeErr = CloseFailed(closeOutcome)]
          /\ mgr' = Release(databaseMap', database)
          /\ crashed' = Terminates(closeOutcome)
          /\ closedHandles' = closedHandles \cup {id}
          /\ UNCHANGED <<databaseId, files, deletedHandles, returned,
                         queryAsMapList>>

\* std::filesystem::remove(path)
FilesAfterRemove(path) == files \ {path}

\* (mutant) the file is removed with the tracked handle left open
DeleteErases_Never(path) == FALSE

\* OnDeleteDatabase: whether the tracked handle of path is erased
DeleteErases(path) ==
  LET existingDatabaseId == getDatabaseId(path)
  IN /\ existingDatabaseId # 0
     /\ getDatabase(existingDatabaseId) # 0
     /\ mgr[getDatabase(existingDatabaseId)].sqliteDatabase

OnDeleteDatabase(path, closeOutcome) ==
  LET c == Call("delete", 0, path)
      existingDatabaseId == getDatabaseId(path)
  IN IF DeleteErases(path)
     THEN LET dbm == getDatabase(existingDatabaseId)
          IN /\ databaseMap' = MapErase(databaseMap, existingDatabaseId)
             /\ singleInstancesByPath' = MapErase(singleInstancesByPath, path)
             /\ mgr' = Release(databaseMap', dbm)   \* dbm leaves its block
             /\ deletedHandles' = deletedHandles \cup {existingDatabaseId}
             /\ crashed' = Terminates(closeOutcome)
             /\ IF Terminates(closeOutcome)
                THEN /\ files' = files
                     /\ last' = [c EXCEPT !.closeErr = TRUE]
                ELSE /\ files' = FilesAfterRemove(path)
                     /\ last' = [Success(c, Null) EXCEPT
                                   !.closeErr = CloseFailed(closeOutcome)]
             /\ UNCHANGED <<databaseId, closedHandles, returned, queryAsMapList>>
     ELSE /\ closeOutcome = "ok"
          /\ files' = FilesAfterRemove(path)
          /\ last' = Success(c, Null)
          /\ UNCHANGED <<databaseId, databaseMap, singleInstancesByPath, mgr,
                         crashed, closedHandles, deletedHandles, returned,
                         queryAsMapList>>


\* --------------------------------------------------- SQL on one manager
\* The engine's answers to one operation: whether the caller's statement and
\* the follow-up query succeed, changes(), last_insert_rowid(), and the rows.
CHANGES_SQL == "SELECT changes();"
INSERT_CHANGES_SQL == "SELECT changes(), last_insert_rowid();"

\* One statement run on a manager (DatabaseManager::execute / query).
Ran(database, sql, params) == [mgr |-> database, sql |-> sql, params |-> params]

\* A 64-bit integer as its two 32-bit words: the value is hi * 2^32 + the
\* unsigned reading of lo; each word is written as the signed 32-bit number
\* with its bit pattern.
I64(hi, lo) == [hi |-> hi, lo |-> lo]
\* int -> int64_t (sign extension)
FromInt32(n) == I64(IF n < 0 THEN -1 ELSE 0, n)
\* int64_t -> int: the low word
ToInt32(x) == x.lo

\* (mutant) the count is made up without asking the engine
queryUpdateChanges_NoQuery(database, eng) ==
  [thrown |-> FALSE, changes |-> 0, ran |-> <<>>]

\* queryUpdateChanges
queryUpdateChanges(database, eng) ==
  [thrown |-> ~eng.follow, changes |-> eng.changes,
   ran |-> <<Ran(database, CHANGES_SQL, <<>>)>>]

\* queryInsertChanges
queryInsertChanges(database, eng) ==
  [thrown |-> ~eng.follow, changes |-> eng.changes,
   \* int lastId = 0; if (changes > 0) lastId = std::get<int64_t>(firstResult[1]);
   lastId |-> IF eng.changes > 0 THEN ToInt32(eng.rowid) ELSE 0,
   ran |-> <<Ran(database, INSERT_CHANGES_SQL, <<>>)>>]

\* SqflitePlugin::execute
execute(database, sql, params, eng) ==
  [thrown |-> ~eng.exec, value |-> Null, ran |-> <<Ran(database, sql, params)>>]

\* (mutant) the follow-up query is made whatever noResult says
SkipsFollowUp_Never(noResult) == FALSE

\* if (noResult) { return flutter::EncodableValue(); } after the execute
SkipsFollowUp(noResult) == noResult

\* (mutant) the row id whatever changes() says
InsertResponse_AlwaysId(changes, lastId) == Int64V(lastId)

\* if (changes == 0) return EncodableValue(); return EncodableValue(lastId);
InsertResponse(changes, lastId) ==
  IF changes = 0 THEN Null ELSE Int64V(lastId)

\* SqflitePlugin::update
update(database, sql, params, noResult, eng) ==
  LET q == queryUpdateChanges(database, eng)
      first == <<Ran(database, sql, params)>>
  IN IF ~eng.exec THEN [thrown |-> TRUE, value |-> Null, ran |-> first]
     ELSE IF SkipsFollowUp(noResult)
          THEN [thrown |-> FALSE, value |-> Null, ran |-> first]
     ELSE IF q.thrown THEN [thrown |-> TRUE, value |-> Null, ran |-> first \o q.ran]
     ELSE [thrown |-> FALSE, value |-> Int64V(FromInt32(q.changes)), ran |-> first \o q.ran]

\* SqflitePlugin::insert
insert(database, sql, params, noResult, eng) ==
  LET q == queryInsertChanges(database, eng)
      first == <<Ran(database, sql, params)>>
  IN IF ~eng.exec THEN [thrown |-> TRUE, value |-> Null, ran |-> first]
     ELSE IF SkipsFollowUp(noResult)
          THEN [thrown |-> FALSE, value |-> Null, ran |-> first]
     ELSE IF q.thrown THEN [thrown |-> TRUE, value |-> Null, ran |-> first \o q.ran]
     \* the pair is std::pair<int64_t, int64_t>: the int lastId is widened
     ELSE [thrown |-> FALSE,
           value |-> InsertResponse(q.changes, FromInt32(q.lastId)),
           ran |-> first \o q.ran]

\* DatabaseManager::bindStmtParams: each typed value goes to the native bind
\* call of its kind and is stored in the matching storage class.
BindParam(p) ==
  CASE p.k = "int64" -> [class |-> "INTEGER", v |-> p.v]
    [] p.k = "string" -> [class |-> "TEXT", v |-> p.v]
    [] p.k = "double" -> [class |-> "FLOAT", v |-> p.v]
    [] p.k = "uint8list" -> [class |-> "BLOB", v |-> p.v]
    [] p.k = "null" -> [class |-> "NULL"]

\* DatabaseManager::queryStmt: a column is read into the alternative of
\* resultvalue (int64_t, std::string, double, std::vector<uint8_t>,
\* std::nullptr_t) that its storage class selects.
ReadColumn(cell) ==
  CASE cell.class = "INTEGER" -> [alt |-> 0, v |-> cell.v]
    [] cell.class = "TEXT" -> [alt |-> 1, v |-> cell.v]
    [] cell.class = "FLOAT" -> [alt |-> 2, v |-> cell.v]
    [] cell.class = "BLOB" -> [alt |-> 3, v |-> cell.v]
    [] cell.class = "NULL" -> [alt |-> 4]

\* (mutant) a blob is handed back as text
DBResultVisitor_BlobAsText(val) ==
  CASE val.alt = 0 -> [k |-> "int64", v |-> val.v]
    [] val.alt = 1 -> [k |-> "string", v |-> val.v]
    [] val.alt = 2 -> [k |-> "double", v |-> val.v]
    [] val.alt = 3 -> [k |-> "string", v |-> val.v]
    [] val.alt = 4 -> Null

\* DBResultVisitor: one encodable kind per alternative of resultvalue
DBResultVisitor(val) ==
  CASE val.alt = 0 -> [k |-> "int64", v |-> val.v]
    [] val.alt = 1 -> [k |-> "string", v |-> val.v]
    [] val.alt = 2 -> [k |-> "double", v |-> val.v]
    [] val.alt = 3 -> [k |-> "uint8list", v |-> val.v]
    [] val.alt = 4 -> Null

EncodeRow(row) == [i \in 1..Len(row) |-> DBResultVisitor(row[i])]

\* rowMap.insert keeps the first value of a repeated column name
RowMap(columns, row) ==
  LET names == {columns[i] : i \in 1..Len(row)}
      firstAt(n) == CHOOSE i \in 1..Len(row) :
                      /\ columns[i] = n
                      /\ \A j \in 1..(i - 1) : columns[j] # n
  IN [n \in names |-> DBResultVisitor(row[firstAt(n)])]

\* SqflitePlugin::query: the response built from (columns, resultset)
QueryResponse(asMapList, columns, resultset) ==
  IF asMapList
  THEN [k |-> "list",
        items |-> [i \in 1..Len(resultset) |-> RowMap(columns, resultset[i])]]
  ELSE IF Len(resultset) = 0 THEN [k |-> "map", columns |-> <<>>, rows |-> <<>>,
                                   empty |-> TRUE]
  ELSE [k |-> "map", columns |-> columns,
        rows |-> [i \in 1..Len(resultset) |-> EncodeRow(resultset[i])],
        empty |-> FALSE]

query(database, sql, params, eng) ==
  IF ~eng.exec
  THEN [thrown |-> TRUE, value |-> Null, ran |-> <<Ran(database, sql, params)>>]
  ELSE [thrown |-> FALSE,
        value |-> QueryResponse(queryAsMapList, eng.columns, eng.rows),
        ran |-> <<Ran(database, sql, params)>>]


\* --------------------------------------------------- the data handlers
\* the arguments of a one-statement call, as the call record keeps them
SqlCall(op, id, sql, params, noResult, eng) ==
  [Call(op, id, "") EXCEPT !.sql = sql, !.params = params,
                           !.noResult = noResult, !.eng = eng]

OnExecuteCall(id, sql, params, eng) ==
  LET c == SqlCall("execute", id, sql, params, FALSE, eng)
      database == getDatabase(id)
  IN /\ IF database = 0 THEN last' = ErrorClosed(c)
        ELSE LET r == execute(database, sql, params, eng)
             IN last' = IF r.thrown THEN [ErrorNative(c) EXCEPT !.ran = r.ran]
                        ELSE [Success(c, Null) EXCEPT !.ran = r.ran]
     /\ UNCHANGED <<registry, queryAsMapList>>

OnInsertCall(id, sql, params, noResult, eng) ==
  LET c == SqlCall("insert", id, sql, params, noResult, eng)
      database == getDatabase(id)
  IN /\ IF database = 0 THEN last' = ErrorClosed(c)
        ELSE LET r == insert(database, sql, params, noResult, eng)
             IN last' = IF r.thrown
                        THEN [ErrorQuery(c, sql, params) EXCEPT !.ran = r.ran]
                        ELSE [Success(c, r.value) EXCEPT !.ran = r.ran]
     /\ UNCHANGED <<registry, queryAsMapList>>

OnUpdateCall(id, sql, params, noResult, eng) ==
  LET c == SqlCall("update", id, sql, params, noResult, eng)
      database == getDatabase(id)
  IN /\ IF database = 0 THEN last' = ErrorClosed(c)
        ELSE LET r == update(database, sql, params, noResult, eng)
             IN last' = IF r.thrown
                        THEN [ErrorQuery(c, sql, params) EXCEPT !.ran = r.ran]
                        ELSE [Success(c, r.value) EXCEPT !.ran = r.ran]
     /\ UNCHANGED <<registry, queryAsMapList>>

OnQueryCall(id, sql, params, eng) ==
  LET c == SqlCall("query", id, sql, params, FALSE, eng)
      database == getDatabase(id)
  IN /\ IF database = 0 THEN last' = ErrorClosed(c)
        ELSE LET r == query(database, sql, params, eng)
             IN last' = IF r.thrown
                        THEN [ErrorQuery(c, sql, params) EXCEPT !.ran = r.ran]
                        ELSE [Success(c, r.value) EXCEPT !.ran = r.ran]
     /\ UNCHANGED <<registry, queryAsMapList>>

\* OnOptionsCall: queryAsMapList = paramsAsList
OnOptionsCall(paramsAsList) ==
  /\ queryAsMapList' = paramsAsList
  /\ last' = Success(Call("options", 0, ""), Null)
  /\ UNCHANGED registry

\* buildSuccessBatchOperationResult / buildErrorBatchOperationResult
buildSuccessBatchOperationResult(result) ==
  [k |-> "opresult", result |-> result, err |-> "", errSql |-> "",
   errArgs |-> <<>>]
buildErrorBatchOperationResult(sql, params) ==
  [k |-> "operror", result |-> Null, err |-> "native", errSql |-> sql,
   errArgs |-> params]

BatchMethods == {"execute", "insert", "query", "update"}

\* one operation of a batch: the helper its method selects
BatchOperation(database, item, noResult) ==
  CASE item.method = "execute" ->
         execute(database, item.sql, item.params, item.eng)
    [] item.method = "insert" ->
         insert(database, item.sql, item.params, noResult, item.eng)
    [] item.method = "query" ->
         query(database, item.sql, item.params, item.eng)
    [] item.method = "update" ->
         update(database, item.sql, item.params, noResult, item.eng)

\* (mutant) a failed operation is passed over whatever continueOnError says
BatchAborts_Never(thrown, continueOnError) == FALSE

\* catch (const DatabaseError &e) { if (!continueOnError) { ...; return; } ... }
BatchAborts(thrown, continueOnError) == thrown /\ ~continueOnError

\* (mutant) the error marker of a failed operation is not collected
BatchCollects_OnlySuccess(thrown, noResult) == ~noResult /\ ~thrown

\* if (!noResult) results.push_back(operationResult), in the try and the catch
BatchCollects(thrown, noResult) == ~noResult

\* (mutant) with continueOnError the batch ends at an unknown method with
\* what it has collected
UnknownMethodReply_SuccessOnContinue(continueOnError) ==
  IF continueOnError THEN "success" ELSE "not_implemented"

\* } else { result->NotImplemented(); return; }: the last branch of the chain
\* on the method, outside every try block; continueOnError is not looked at
UnknownMethodReply(continueOnError) == "not_implemented"

\* the statements that open and end a transaction
BEGIN_SQL == "BEGIN"
COMMIT_SQL == "COMMIT"
ROLLBACK_SQL == "ROLLBACK"

\* (mutant) the batch ran in a transaction that is rolled back when it ends
\* early
RanAtAbort_RolledBack(database, ran) ==
  <<Ran(database, BEGIN_SQL, <<>>)>> \o ran
    \o <<Ran(database, ROLLBACK_SQL, <<>>)>>

\* the statements a batch has run when it ends early: handleQueryException
\* (or NotImplemented) and return, with no statement before the loop and none
\* after it
RanAtAbort(database, ran) == ran

\* OnBatchCall's loop over the operations, from item i on
RECURSIVE BatchLoop(_, _, _, _, _, _, _)
BatchLoop(database, operations, i, results, ran, continueOnError, noResult) ==
  IF i > Len(operations)
  THEN [res |-> "success", errSql |-> "", errArgs |-> <<>>,
        results |-> results, ran |-> ran]
  ELSE LET item == operations[i]
       IN IF item.method \notin BatchMethods
          THEN [res |-> UnknownMethodReply(continueOnError),
                errSql |-> "", errArgs |-> <<>>,
                results |-> results, ran |-> RanAtAbort(database, ran)]
          ELSE LET r == BatchOperation(database, item, noResult)
                   ran2 == ran \o r.ran
               IN IF BatchAborts(r.thrown, continueOnError)
                  THEN [res |-> "error", errSql |-> item.sql,
                        errArgs |-> item.params,
                        results |-> results,
                        ran |-> RanAtAbort(database, ran2)]
                  ELSE BatchLoop(database, operations, i + 1,
                         IF ~BatchCollects(r.thrown, noResult) THEN results
                         ELSE IF r.thrown
                              THEN Append(results,
                                     buildErrorBatchOperationResult(
                                       item.sql, item.params))
                              ELSE Append(results,
                                     buildSuccessBatchOperationResult(r.value)),
                         ran2, continueOnError, noResult)

OnBatchCall(id, operations, continueOnError, noResult) ==
  LET c == [Call("batch", id, "") EXCEPT !.operations = operations,
                                         !.continueOnError = continueOnError,
                                         !.noResult = noResult]
      database == getDatabase(id)
  IN /\ IF database = 0 THEN last' = ErrorClosed(c)
        ELSE LET b == BatchLoop(database, operations, 1, <<>>, <<>>,
                                continueOnError, noResult)
             IN last' =
                  CASE b.res = "not_implemented" ->
                         [NotImplemented(c) EXCEPT !.ran = b.ran]
                    [] b.res = "error" ->
                         [ErrorQuery(c, b.errSql, b.errArgs)
                            EXCEPT !.ran = b.ran]
                    [] b.res = "success" ->
                         [Success(c, IF noResult THEN Null
                                     ELSE [k |-> "list", items |-> b.results])
                            EXCEPT !.ran = b.ran]
     /\ UNCHANGED <<registry, queryAsMapList>>

\* ------------------------------------------------ the destructor, stepwise
\* No destructor is running.  (obj: the manager being destroyed; connected:
\* its native connection is open; stmts: its cached statements not finalized
\* yet; cached: the statements it had when the destructor started.)
NoDtor == [obj |-> 0, connected |-> FALSE, stmts |-> {}, cached |-> {}]
\* No open call is in progress on any thread, and none has overlapped another.
\* (calls: thread -> the position and the locals of its OnOpenDatabaseCall;
\* overlapped: history, some call made a step while another was in progress.)
NoThreads == [calls |-> <<>>, overlapped |-> FALSE]

\* DatabaseManager::prepareStmt: the statement prepared for a SQL text is kept
\* in stmtCache under that text.
CacheAfterPrepare(cache, sql) == cache \cup {sql}

\* (mutant) the connection is closed with statements still cached
DtorMayClose_Anytime(stmts) == TRUE

\* DatabaseManager::close(): the connection is closed once every cached
\* statement has been finalized.
DtorMayClose(stmts) == stmts = {}

\* ~DatabaseManager() finalizes one cached statement
DtorFinalize ==
  /\ dtor.obj # 0
  /\ \E s \in dtor.stmts : dtor' = [dtor EXCEPT !.stmts = @ \ {s}]
  /\ UNCHANGED <<registry, queryAsMapList, last, permission, stmtCache, threads,
                 request>>

\* ~DatabaseManager() closes the native connection
DtorClose ==
  /\ dtor.obj # 0
  /\ dtor.connected
  /\ DtorMayClose(dtor.stmts)
  /\ dtor' = [dtor EXCEPT !.connected = FALSE]
  /\ UNCHANGED <<registry, queryAsMapList, last, permission, stmtCache, threads,
                 request>>

\* ~DatabaseManager() returns: the object is gone
DtorReturn ==
  /\ dtor.obj # 0
  /\ ~dtor.connected
  /\ dtor.stmts = {}
  /\ dtor' = NoDtor
  /\ UNCHANGED <<registry, queryAsMapList, last, permission, stmtCache, threads,
                 request>>

\* ------------------------------------------------------ HandleMethodCall
\* result->Error("permission_not_allowed", e.what())
ErrorPermission(c) ==
  [c EXCEPT !.res = "error", !.err = "permission_not_allowed"]

\* (mutant) the call is dispatched whatever the check answers
Dispatches_Always(answer) == TRUE

\* try { CheckPermissionsOrError(); } catch (...) { result->Error(...); return; }
Dispatches(answer) == answer = "allow"

\* HandleMethodCall: the permission check, then the handler of the method
HandleMethodCall(c, handler) ==
  IF Dispatches(permission) THEN handler
  ELSE /\ last' = ErrorPermission(c)
       /\ UNCHANGED <<registry, queryAsMapList, stmtCache, dtor>>

\* ------------------------------- geolocator: PermissionManager::RequestPermssion
\* The return codes of ppm_request_permission, the call causes and the request
\* results of the privacy privilege manager.  "UNKNOWN" stands for every
\* request result the switch has no case for.
PRIVACY_PRIVILEGE_MANAGER_ERROR_NONE == "ERROR_NONE"
RequestErrors == {"ERROR_IO_ERROR", "ERROR_INVALID_PARAMETER", "ERROR_UNKNOWN"}
RequestReturns == {PRIVACY_PRIVILEGE_MANAGER_ERROR_NONE} \cup RequestErrors
CALL_CAUSE_ANSWER == "CALL_CAUSE_ANSWER"
CallCauses == {CALL_CAUSE_ANSWER, "CALL_CAUSE_ERROR"}
RequestResults == {"ALLOW_FOREVER", "DENY_ONCE", "DENY_FOREVER", "UNKNOWN"}
\* the value of a field of `response` that nothing has written yet
Indeterminate == "indeterminate"

MaxRequests == 2      \* calls of RequestPermssion in a run
MaxIterations == 3    \* iterations of the wait loop that are told apart

\* TizenResult(code), and whether it denotes an error
TizenResult(code) == [code |-> code]
IsError(result) == result.code # PRIVACY_PRIVILEGE_MANAGER_ERROR_NONE
NoTizenResult == [code |-> "none"]

\* No call of RequestPermssion has been made.  (pc: where the call is; ret:
\* what ppm_request_permission returned; cause, result, received: the local
\* `response`; iterations: passes of the wait loop; on_success, on_failure:
\* how often the call has invoked each; status, failure: what it passed;
\* calls: the calls made so far.)
NoRequest ==
  [pc |-> "idle", ret |-> "none", cause |-> Indeterminate,
   result |-> Indeterminate, received |-> FALSE, iterations |-> 0,
   on_success |-> 0, on_failure |-> 0, status |-> "none",
   failure |-> NoTizenResult, calls |-> 0]

\* on_success(status) / on_failure(result)
OnSuccess(r, status) ==
  [r EXCEPT !.on_success = @ + 1, !.status = status, !.pc = "returned"]
OnFailure(r, result) ==
  [r EXCEPT !.on_failure = @ + 1, !.failure = result, !.pc = "returned"]

\* (mutant) the wait loop is left whether or not the response has come
WaitExits_Anytime(received) == TRUE

\* while (!response.received) { ecore_main_loop_iterate(); }
WaitExits(received) == received

\* lines 76-96: the callback chosen from the response, once the loop is left
AfterWait(r) ==
  IF r.cause # CALL_CAUSE_ANSWER
  THEN OnFailure(r, TizenResult(r.ret))
  ELSE CASE r.result = "ALLOW_FOREVER" -> OnSuccess(r, "kAlways")
         [] r.result = "DENY_ONCE" -> OnSuccess(r, "kDenied")
         [] r.result = "DENY_FOREVER" -> OnSuccess(r, "kDeniedForever")
         [] OTHER -> OnFailure(r, TizenResult(r.ret))

\* what the steps of RequestPermssion leave alone
plugin == <<registry, queryAsMapList, last, permission, stmtCache, dtor,
            threads>>

\* lines 53-69: ppm_request_permission is called; a return code other than
\* ERROR_NONE is passed to on_failure and the call returns
PermRequest ==
  /\ request.pc \in {"idle", "returned"}
  /\ request.calls < MaxRequests
  /\ \E ret \in RequestReturns :
       LET r == [NoRequest EXCEPT !.ret = ret, !.calls = request.calls + 1,
                                  !.pc = "waiting"]
       IN request' = IF ret # PRIVACY_PRIVILEGE_MANAGER_ERROR_NONE
                     THEN OnFailure(r, TizenResult(ret))
                     ELSE r
  /\ UNCHANGED plugin

\* lines 72-74, one pass of the loop: ecore_main_loop_iterate() runs, and the
\* main loop may or may not call the response callback (lines 57-63) in it
PermIterate ==
  /\ request.pc = "waiting"
  /\ ~WaitExits(request.received)
  /\ \E delivered \in BOOLEAN, cause \in CallCauses, result \in RequestResults :
       LET iterated ==
             [request EXCEPT !.iterations =
                IF @ < MaxIterations THEN @ + 1 ELSE MaxIterations]
       IN request' = IF delivered
                     THEN [iterated EXCEPT !.cause = cause, !.result = result,
                                           !.received = TRUE]
                     ELSE iterated
  /\ UNCHANGED plugin

\* lines 72 and 76-97: the loop is left, a callback is invoked, the call returns
PermDecide ==
  /\ request.pc = "waiting"
  /\ WaitExits(request.received)
  /\ request' = AfterWait(request)
  /\ UNCHANGED plugin

PermNext ==
  \/ PermRequest
  \/ PermIterate
  \/ PermDecide

\* ----------------------------------------------------- the specification
\* The inputs the calls are given under Spec.  An input the handler never
\* reads on the path taken (the engine's answers when the handle lookup
\* fails, the close outcome when no manager is released) is fixed, so that
\* one call is not enumerated several times.
Engine(execOk) ==
  [exec |-> execOk, follow |-> TRUE, changes |-> 1, rowid |-> I64(0, 1),
   columns |-> <<"c">>, rows |-> <<>>]
Engines == {Engine(e) : e \in BOOLEAN}
\* the statement text and the argument list of the calls
SqlText == "SQL"
SqlParams == <<"p">>
Item(method, sql, eng) ==
  [method |-> method, sql |-> sql, params |-> SqlParams, eng |-> eng]
BatchItems ==
  {Item("execute", SqlText, Engine(e)) : e \in BOOLEAN}
    \cup {Item("vacuum", SqlText, Engine(TRUE))}
BatchLists == {<<>>} \cup {<<item>> : item \in BatchItems}

Init ==
  /\ databaseId = 0
  /\ databaseMap = EmptyMap
  /\ singleInstancesByPath = EmptyMap
  /\ mgr = EmptyMap
  /\ files = {}                \* a fresh installation: no database file yet
  /\ crashed = FALSE
  /\ queryAsMapList = FALSE
  /\ last = Call("none", 0, "")
  /\ closedHandles = {}
  /\ deletedHandles = {}
  /\ returned = {}
  /\ permission = "allow"
  /\ stmtCache = EmptyMap
  /\ dtor = NoDtor
  /\ threads = NoThreads
  /\ request = NoRequest

Open ==
  \E path \in Paths, readOnly \in BOOLEAN, singleInstance \in BOOLEAN,
     engineOk \in BOOLEAN :
    /\ Recovers(path, singleInstance) => engineOk
    /\ OnOpenDatabaseCall(path, readOnly, singleInstance, engineOk)
Close ==
  \E id \in Handles, closeOutcome \in CloseOutcomes :
    /\ getDatabase(id) = 0 => closeOutcome = "ok"
    /\ OnCloseDatabaseCall(id, closeOutcome)
Delete ==
  \E path \in Paths, closeOutcome \in CloseOutcomes :
    OnDeleteDatabase(path, closeOutcome)
Execute ==
  \E id \in Handles, eng \in Engines :
    /\ getDatabase(id) = 0 => eng = Engine(TRUE)
    /\ OnExecuteCall(id, SqlText, SqlParams, eng)
Insert ==
  \E id \in Handles, noResult \in BOOLEAN, eng \in Engines :
    /\ (getDatabase(id) = 0 \/ ~eng.exec) => ~noResult
    /\ getDatabase(id) = 0 => eng = Engine(TRUE)
    /\ OnInsertCall(id, SqlText, SqlParams, noResult, eng)
Update ==
  \E id \in Handles, noResult \in BOOLEAN, eng \in Engines :
    /\ (getDatabase(id) = 0 \/ ~eng.exec) => ~noResult
    /\ getDatabase(id) = 0 => eng = Engine(TRUE)
    /\ OnUpdateCall(id, SqlText, SqlParams, noResult, eng)
Query ==
  \E id \in Handles, eng \in Engines :
    /\ getDatabase(id) = 0 => eng = Engine(TRUE)
    /\ OnQueryCall(id, SqlText, SqlParams, eng)
\* (continueOnError and noResult keep their defaults here; SqlSpec varies them)
Batch ==
  \E id \in Handles, operations \in BatchLists :
    /\ getDatabase(id) = 0 => operations = <<>>
    /\ OnBatchCall(id, operations, FALSE, FALSE)

\* HandleMethodCall: one call at a time, none once the process has terminated
Next ==
  /\ ~crashed
  /\ UNCHANGED aux
  /\ \/ Open
     \/ Close
     \/ Delete
     \/ Execute
     \/ Insert
     \/ Update
     \/ Query
     \/ Batch

Spec == Init /\ [][Next]_vars

\* ------------------------------------------- the statements specification
\* The same handlers with the engine's answers varied: the caller's statement
\* or the follow-up query fails, changes() is 0 or more, last_insert_rowid()
\* is small, negative or beyond 32 bits, a query has rows or none, and a batch
\* has up to two operations.  Connections are in-memory and stay open.
Answers(execOk, followOk, changes, rowid, rows) ==
  [exec |-> execOk, follow |-> followOk, changes |-> changes, rowid |-> rowid,
   columns |-> <<"c">>, rows |-> rows]
ExecFails == Answers(FALSE, TRUE, 0, I64(0, 0), <<>>)
FollowFails == Answers(TRUE, FALSE, 0, I64(0, 0), <<>>)
Changed(changes, rowid) == Answers(TRUE, TRUE, changes, rowid, <<>>)
Rows(rows) == Answers(TRUE, TRUE, 0, I64(0, 0), rows)
\* row identifiers: 1, -1 and 2^32
RowIds == {I64(0, 1), I64(-1, -1), I64(1, 0)}
OneRow == <<<<[alt |-> 0, v |-> I64(0, 1)]>>>>

ExecuteEngines == {Rows(<<>>), ExecFails}
InsertEngines ==
  {ExecFails, FollowFails, Changed(0, I64(0, 1))}
    \cup {Changed(1, r) : r \in RowIds}
UpdateEngines == {ExecFails, FollowFails, Changed(0, I64(0, 1)), Changed(2, I64(0, 1))}
QueryEngines == {ExecFails, Rows(<<>>), Rows(OneRow)}

\* the operations of a batch: each method succeeding and failing, and a
\* method the batch does not know
SqlBatchItems(sql) ==
  {Item("execute", sql, e) : e \in ExecuteEngines}
    \cup {Item("insert", sql, e) : e \in {Changed(1, I64(0, 1)), FollowFails}}
    \cup {Item("update", sql, e) : e \in {Changed(2, I64(0, 1)), ExecFails}}
    \cup {Item("query", sql, e) : e \in {Rows(OneRow), ExecFails}}
    \cup {Item("vacuum", sql, Rows(<<>>))}
\* the second operation of a two-operation batch
SqlSecondItems(sql) ==
  {Item("execute", sql, Rows(<<>>)), Item("update", sql, ExecFails),
   Item("query", sql, Rows(OneRow)), Item("vacuum", sql, Rows(<<>>))}
SqlBatchLists ==
  {<<>>} \cup {<<a>> : a \in SqlBatchItems("A")}
         \cup {<<a, b>> : a \in SqlBatchItems("A"), b \in SqlSecondItems("B")}

\* one value of each kind a caller can bind
Kinds == {"int64", "string", "double", "uint8list", "null"}
TypedValue(kind) ==
  CASE kind = "int64" -> Int64V(I64(1, 0))
    [] kind = "string" -> [k |-> "string", v |-> "hi"]
    [] kind = "double" -> [k |-> "double", v |-> "1.5"]
    [] kind = "uint8list" -> [k |-> "uint8list", v |-> <<1, 2>>]
    [] kind = "null" -> Null
SELECT_PARAM_SQL == "SELECT ?"

SqlOpen == OnOpenDatabaseCall(MEMORY_DATABASE_PATH, FALSE, FALSE, TRUE)
\* a value is bound as the parameter of SELECT ? and the engine hands back
\* the one row holding what was stored
SqlRoundTrip ==
  \E id \in Handles, kind \in Kinds :
    /\ getDatabase(id) # 0
    /\ OnQueryCall(id, SELECT_PARAM_SQL, <<TypedValue(kind)>>,
                   Rows(<<<<ReadColumn(BindParam(TypedValue(kind)))>>>>))
SqlOptions == \E paramsAsList \in BOOLEAN : OnOptionsCall(paramsAsList)
SqlExecute ==
  \E id \in Handles, eng \in ExecuteEngines :
    /\ getDatabase(id) = 0 => eng = Rows(<<>>)
    /\ OnExecuteCall(id, SqlText, SqlParams, eng)
SqlInsert ==
  \E id \in Handles, noResult \in BOOLEAN, eng \in InsertEngines :
    /\ getDatabase(id) = 0 => eng = ExecFails /\ ~noResult
    /\ OnInsertCall(id, SqlText, SqlParams, noResult, eng)
SqlUpdate ==
  \E id \in Handles, noResult \in BOOLEAN, eng \in UpdateEngines :
    /\ getDatabase(id) = 0 => eng = ExecFails /\ ~noResult
    /\ OnUpdateCall(id, SqlText, SqlParams, noResult, eng)
SqlQuery ==
  \E id \in Handles, eng \in QueryEngines :
    /\ getDatabase(id) = 0 => eng = ExecFails
    /\ OnQueryCall(id, SqlText, SqlParams, eng)
SqlBatch ==
  \E id \in Handles, operations \in SqlBatchLists,
     continueOnError \in BOOLEAN, noResult \in BOOLEAN :
    /\ getDatabase(id) = 0 => operations = <<>> /\ ~continueOnError /\ ~noResult
    /\ OnBatchCall(id, operations, continueOnError, noResult)

SqlNext ==
  /\ UNCHANGED aux
  /\ \/ SqlOpen
     \/ SqlOptions
     \/ SqlExecute
     \/ SqlInsert
     \/ SqlUpdate
     \/ SqlQuery
     \/ SqlRoundTrip
     \/ SqlBatch

SqlSpec == Init /\ [][SqlNext]_vars

\* -------------------------------------------- the lifetimes specification
\* The calls behind the permission check, with the statement cache of each
\* manager kept and the destructor of a released manager taken step by step.
\* In OnCloseDatabaseCall the local shared_ptr `database` (line 1303) owns the
\* manager until the handler returns, after result->Success() (line 1328):
\* the destructor starts in the state the handler leaves and ends before the
\* next call is handled.
LifePaths == {MEMORY_DATABASE_PATH, "a.db"}
LifeSqls == {"A", "B"}

\* the caches of the managers the registry owns after the step
CachesAfter(caches) ==
  [m \in DOMAIN mgr' |-> IF m \in DOMAIN caches THEN caches[m] ELSE {}]

\* the user grants or withdraws the permission
PermissionChange ==
  /\ dtor.obj = 0
  /\ permission' = IF permission = "allow" THEN "deny" ELSE "allow"
  /\ UNCHANGED <<registry, queryAsMapList, last, stmtCache, dtor, threads,
                 request>>

LifeOpen ==
  \E path \in LifePaths :
    /\ dtor.obj = 0
    /\ HandleMethodCall(
         [Call("open", 0, path) EXCEPT !.single = TRUE],
         /\ OnOpenDatabaseCall(path, FALSE, TRUE, TRUE)
         /\ stmtCache' = CachesAfter(stmtCache)
         /\ dtor' = dtor)
    /\ UNCHANGED <<permission, threads, request>>

LifeExecute ==
  \E id \in Handles, sql \in LifeSqls :
    /\ dtor.obj = 0
    /\ HandleMethodCall(
         SqlCall("execute", id, sql, <<>>, FALSE, Rows(<<>>)),
         /\ OnExecuteCall(id, sql, <<>>, Rows(<<>>))
         /\ stmtCache' =
              IF getDatabase(id) = 0 THEN stmtCache
              ELSE [stmtCache EXCEPT ![getDatabase(id)] =
                      CacheAfterPrepare(@, sql)]
         /\ dtor' = dtor)
    /\ UNCHANGED <<permission, threads, request>>

LifeClose ==
  \E id \in Handles :
    /\ dtor.obj = 0
    /\ HandleMethodCall(
         Call("close", id, ""),
         /\ OnCloseDatabaseCall(id, "ok")
         /\ stmtCache' = CachesAfter(stmtCache)
         /\ LET database == getDatabase(id)
            IN dtor' = IF database # 0 /\ database \notin DOMAIN mgr'
                       THEN [obj |-> database, connected |-> TRUE,
                             stmts |-> stmtCache[database],
                             cached |-> stmtCache[database]]
                       ELSE dtor)
    /\ UNCHANGED <<permission, threads, request>>

LifeNext ==
  \/ PermissionChange
  \/ LifeOpen
  \/ LifeExecute
  \/ LifeClose
  \/ DtorFinalize
  \/ DtorClose
  \/ DtorReturn

LifeSpec == Init /\ [][LifeNext]_vars

\* ------------------------------------------------ the threads specification
\* OnOpenDatabaseCall without serialization (the "TODO: Protect with mutex"
\* of lines 1262 and 1277): each thread runs one call at a time and the
\* steps of the calls interleave.  The steps are the accesses to the shared
\* members: the path lookup, ++databaseId, the two inserts (each reads
\* databaseId again) and the reply (which reads it once more).  The opens
\* are read-write, single-instance opens of a file the engine accepts.
Threads == {1, 2}
RacePaths == {"a.db", "b.db"}

ThreadCall(t) == threads.calls[t]
\* the call record of the open a thread is running
RaceCall(path) ==
  [Call("open", 0, path) EXCEPT !.single = TRUE]
\* a step of thread t: its call moves on (or ends), and the step overlaps
\* another call when another thread is inside one
ThreadsAfter(t, calls) ==
  [calls |-> calls,
   overlapped |-> threads.overlapped \/ DOMAIN threads.calls \ {t} # {}]
Moves(t, pc) ==
  ThreadsAfter(t, [threads.calls EXCEPT ![t].pc = pc])
Ends(t) == ThreadsAfter(t, MapErase(threads.calls, t))

\* lines 1238-1261: the arguments, then the lookup in singleInstancesByPath
\* and databaseMap; a live manager found is returned at once
RaceLookup(t) ==
  \E path \in RacePaths :
    LET singleInstance == EffectiveSingleInstance(path, TRUE)
        found == IF singleInstance THEN FoundSingleInstance(path) ELSE 0
    IN /\ t \notin DOMAIN threads.calls
       /\ IF found # 0
          THEN /\ last' = Success(RaceCall(path), makeOpenResult(found, TRUE))
               /\ returned' = returned \cup {found}
               /\ threads' = ThreadsAfter(t, threads.calls)
          ELSE /\ threads' =
                    ThreadsAfter(t, MapInsert(threads.calls, t,
                      [pc |-> "allocate", path |-> path,
                       singleInstance |-> singleInstance, newDatabaseId |-> 0]))
               /\ UNCHANGED <<last, returned>>
       /\ UNCHANGED <<databaseId, databaseMap, singleInstancesByPath, mgr,
                      files, crashed, closedHandles, deletedHandles,
                      queryAsMapList, permission, stmtCache, dtor, request>>

\* line 1263: const int newDatabaseId = ++databaseId;
RaceAllocate(t) ==
  /\ t \in DOMAIN threads.calls
  /\ ThreadCall(t).pc = "allocate"
  /\ databaseId < MaxId
  /\ databaseId' = NextDatabaseId
  /\ threads' = ThreadsAfter(t, [threads.calls EXCEPT
                    ![t].pc = "construct", ![t].newDatabaseId = databaseId'])
  /\ UNCHANGED <<databaseMap, singleInstancesByPath, mgr, files, crashed,
                 closedHandles, deletedHandles, returned, last,
                 queryAsMapList, permission, stmtCache, dtor, request>>

\* lines 1265-1274: the manager is made with newDatabaseId and opened
RaceConstruct(t) ==
  /\ t \in DOMAIN threads.calls
  /\ ThreadCall(t).pc = "construct"
  /\ LET c == ThreadCall(t)
     IN /\ mgr' = MapInsert(mgr, c.newDatabaseId,
                    NewManager(c.path, c.newDatabaseId, c.singleInstance, FALSE))
        /\ files' = FilesAfterOpen(c.path, FALSE)
  /\ threads' = Moves(t, "registerPath")
  /\ UNCHANGED <<databaseId, databaseMap, singleInstancesByPath, crashed,
                 closedHandles, deletedHandles, returned, last,
                 queryAsMapList, permission, stmtCache, dtor, request>>

\* lines 1279-1282: singleInstancesByPath.insert(pair(path, databaseId))
RaceRegisterPath(t) ==
  /\ t \in DOMAIN threads.calls
  /\ ThreadCall(t).pc = "registerPath"
  /\ singleInstancesByPath' =
       RegisterPath(ThreadCall(t).path, ThreadCall(t).singleInstance, databaseId)
  /\ threads' = Moves(t, "registerHandle")
  /\ UNCHANGED <<databaseId, databaseMap, mgr, files, crashed, closedHandles,
                 deletedHandles, returned, last, queryAsMapList, permission,
                 stmtCache, dtor, request>>

\* lines 1283-1285: databaseMap.insert(pair(databaseId, databaseManager)),
\* then the try block ends and with it the local owner of the manager
RaceRegisterHandle(t) ==
  /\ t \in DOMAIN threads.calls
  /\ ThreadCall(t).pc = "registerHandle"
  /\ databaseMap' = MapInsert(databaseMap, databaseId, ThreadCall(t).newDatabaseId)
  /\ mgr' = Release(databaseMap', ThreadCall(t).newDatabaseId)
  /\ threads' = Moves(t, "reply")
  /\ UNCHANGED <<databaseId, singleInstancesByPath, files, crashed,
                 closedHandles, deletedHandles, returned, last,
                 queryAsMapList, permission, stmtCache, dtor, request>>

\* lines 1291-1292: result->Success(makeOpenResult(databaseId, false))
RaceReply(t) ==
  /\ t \in DOMAIN threads.calls
  /\ ThreadCall(t).pc = "reply"
  /\ last' = [Success(RaceCall(ThreadCall(t).path),
                      makeOpenResult(databaseId, FALSE))
                EXCEPT !.native = "opened", !.mode = OpenMode(FALSE)]
  /\ returned' = returned \cup {databaseId}
  /\ threads' = Ends(t)
  /\ UNCHANGED <<databaseId, databaseMap, singleInstancesByPath, mgr, files,
                 crashed, closedHandles, deletedHandles, queryAsMapList,
                 permission, stmtCache, dtor, request>>

RaceNext ==
  \E t \in Threads :
    \/ RaceLookup(t)
    \/ RaceAllocate(t)
    \/ RaceConstruct(t)
    \/ RaceRegisterPath(t)
    \/ RaceRegisterHandle(t)
    \/ RaceReply(t)

RaceSpec == Init /\ [][RaceNext]_vars

\* ------------------------------------- the permission request specification
PermSpec == Init /\ [][PermNext]_vars
\* the calling thread keeps running: once the loop can be left it is left
PermLiveSpec == PermSpec /\ WF_vars(PermDecide)


\* ------------------------------------------------------------- the claims
\* What the claims say about a call is read off last' on the step that handles
\* it (every handler writes last); the registry before the call is the
\* unprimed state.
HandleOps == {"execute", "query", "insert", "update", "batch", "close"}
ClosedReply(c) == c.res = "error" /\ c.err = "database_closed"
\* a successful open's reply
OpenedId(c) == c.value.id.v
IsNewOpen(c) == c.op = "open" /\ c.res = "success" /\ ~c.value.recovered
IsRecoveredOpen(c) == c.op = "open" /\ c.res = "success" /\ c.value.recovered

\* C1: while a handle h opened with singleInstance=true on a file path is still
\* registered, an open of that path with singleInstance=true succeeds with
\* {id: h, recovered: true}, calls no native open, and leaves the id counter,
\* the handle map and the managers as they were.
C1_SecondOpenRecovers ==
  [][\A h \in DOMAIN databaseMap :
       (/\ last'.op = "open"
        /\ last'.single
        /\ last'.path \notin {"", MEMORY_DATABASE_PATH}
        /\ mgr[databaseMap[h]].singleInstance
        /\ mgr[databaseMap[h]].path = last'.path)
       => (/\ last'.res = "success"
           /\ OpenedId(last') = h
           /\ last'.value.recovered
           /\ last'.native = "none"
           /\ databaseId' = databaseId
           /\ databaseMap' = databaseMap
           /\ mgr' = mgr)]_vars

\* a recovering open was answered while a second handle was registered
C1_Witness ==
  /\ IsRecoveredOpen(last)
  /\ OpenedId(last) \in DOMAIN databaseMap
  /\ Cardinality(DOMAIN databaseMap) > 1

\* C2: once close has erased a handle, every execute, query, insert, update,
\* batch and close with that handle is answered with the database-closed error,
\* whatever was called in between.
C2_ClosedHandleStaysClosed ==
  [][(last'.op \in HandleOps /\ last'.id \in closedHandles)
       => ClosedReply(last')]_vars

\* a closed handle was used after a later open had registered a new handle
C2_Witness ==
  /\ last.op \in HandleOps \ {"close"}
  /\ last.id \in closedHandles
  /\ ClosedReply(last)
  /\ \E h \in DOMAIN databaseMap : h > last.id

\* C3: a call with a handle that is not registered is answered with the
\* database-closed error, runs no statement, opens nothing, and leaves the
\* handle map, the path map, the id counter and the managers unchanged.
C3_UnknownHandleChangesNothing ==
  [][(last'.op \in HandleOps /\ last'.id \notin DOMAIN databaseMap)
       => (/\ ClosedReply(last')
           /\ last'.ran = <<>>
           /\ last'.native = "none"
           /\ databaseMap' = databaseMap
           /\ singleInstancesByPath' = singleInstancesByPath
           /\ databaseId' = databaseId
           /\ mgr' = mgr)]_vars

\* a never-allocated handle was refused while managers were registered
C3_Witness ==
  /\ last.op = "batch"
  /\ last.id \notin returned
  /\ ClosedReply(last)
  /\ DOMAIN databaseMap # {}

\* C4: an open whose native open fails is answered with an error and leaves
\* the handle map, the path map and the set of live managers as they were; and
\* every registered handle refers to a live manager that did open.
C4_FailedOpenRegistersNothing ==
  /\ [][(last'.op = "open" /\ last'.native = "open_failed")
          => (/\ last'.res = "error"
              /\ databaseMap' = databaseMap
              /\ singleInstancesByPath' = singleInstancesByPath
              /\ mgr' = mgr)]_vars
  /\ [](\A h \in DOMAIN databaseMap :
          /\ databaseMap[h] \in DOMAIN mgr
          /\ mgr[databaseMap[h]].sqliteDatabase)

\* a single-instance open of a file path failed
C4_Witness ==
  /\ last.op = "open"
  /\ last.native = "open_failed"
  /\ last.single
  /\ last.path \in FilePaths
  /\ last.res = "error"


\* C5 as stated: the handle of a new open is positive, greater than every handle
\* returned before, and the first handle returned is 1.
C5_FirstHandleIsOne ==
  [][IsNewOpen(last')
       => (/\ OpenedId(last') > 0
           /\ \A h \in returned : OpenedId(last') > h
           /\ (returned = {} => OpenedId(last') = 1))]_vars

\* C5 (amended): the handle of a new open is positive and greater than every
\* handle returned before (so none is reused, closed or not); the first id the
\* allocator makes is 1, and it is the handle returned when the first new open
\* succeeds.
C5_HandlesIncrease ==
  [][IsNewOpen(last')
       => (/\ OpenedId(last') > 0
           /\ \A h \in returned : OpenedId(last') > h
           /\ OpenedId(last') \notin closedHandles \cup deletedHandles
           /\ (databaseId = 0 => OpenedId(last') = 1))]_vars

\* a new open got a handle after an earlier handle had been closed
C5_Witness ==
  /\ IsNewOpen(last)
  /\ closedHandles # {}
  /\ \A h \in closedHandles : OpenedId(last) > h

\* C6: a path entry appears only on an open with singleInstance=true of a path
\* that is neither empty nor ":memory:", and it is that path's; an open with
\* singleInstance=false or of an in-memory path leaves the path map as it was
\* and, when it succeeds, returns a handle that is not recovered and was neither
\* registered nor returned before.
C6_PathEntryOnlyForSingleInstanceFile ==
  [][/\ \A p \in DOMAIN singleInstancesByPath' \ DOMAIN singleInstancesByPath :
          /\ last'.op = "open"
          /\ last'.single
          /\ last'.path = p
          /\ p \notin {"", MEMORY_DATABASE_PATH}
     /\ (last'.op = "open"
           /\ (~last'.single \/ last'.path \in {"", MEMORY_DATABASE_PATH}))
          => (/\ singleInstancesByPath' = singleInstancesByPath
              /\ last'.res = "success"
                   => (/\ ~last'.value.recovered
                       /\ OpenedId(last') \notin DOMAIN databaseMap
                       /\ OpenedId(last') \notin returned))]_vars

\* an in-memory path was opened with singleInstance=true a second time
C6_Witness ==
  /\ IsNewOpen(last)
  /\ last.single
  /\ last.path \in {"", MEMORY_DATABASE_PATH}
  /\ \E h \in DOMAIN databaseMap :
       h # OpenedId(last) /\ mgr[databaseMap[h]].path = last.path

\* C7: a close of a registered handle leaves the handle map without the handle
\* and, for a single-instance manager, the path map without its path, whatever
\* the native close did and whatever reply the call got.
C7_CloseAlwaysUnregisters ==
  [][(last'.op = "close" /\ last'.id \in DOMAIN databaseMap)
       => (/\ last'.id \notin DOMAIN databaseMap'
           /\ mgr[databaseMap[last'.id]].singleInstance
                => mgr[databaseMap[last'.id]].path
                     \notin DOMAIN singleInstancesByPath')]_vars

\* a single-instance handle was closed with a failing native close
C7_Witness ==
  /\ last.op = "close"
  /\ last.closeErr
  /\ last.id \in closedHandles
  /\ singleInstancesByPath = EmptyMap
  /\ \E h \in DOMAIN databaseMap : h < last.id

\* C8 as stated: a close during which the native close failed is answered with
\* an error.
C8_CloseErrorSurfaced ==
  (last.op = "close" /\ last.closeErr) => last.res = "error"

\* C9: a delete of a path with a tracked handle h changes the handle map and
\* the path map exactly as close(h) would, releases h's manager, and removes
\* the file only after that (when the release ends the process the file is
\* still there); from then on every call with h gets the database-closed error.
C9_DeleteClosesTrackedHandle ==
  /\ [][(last'.op = "delete" /\ last'.path \in DOMAIN singleInstancesByPath)
          => LET h == singleInstancesByPath[last'.path]
             IN /\ databaseMap' = CloseEraseHandle(h)
                /\ singleInstancesByPath' = CloseErasePath(databaseMap[h])
                /\ h \notin DOMAIN databaseMap'
                /\ last'.path \notin DOMAIN singleInstancesByPath'
                /\ databaseMap[h] \notin DOMAIN mgr'
                /\ h \in deletedHandles'
                /\ crashed' => files' = files
                /\ ~crashed' => (last'.path \notin files' /\ last'.res = "success")
        ]_vars
  /\ [][(last'.op \in HandleOps /\ last'.id \in deletedHandles)
          => ClosedReply(last')]_vars

\* a handle erased by delete was used after the path had been opened again
C9_Witness ==
  /\ last.op \in HandleOps
  /\ last.id \in deletedHandles
  /\ ClosedReply(last)
  /\ DOMAIN singleInstancesByPath # {}

\* C10: a delete of a path with no tracked handle and no file succeeds and
\* leaves the id counter, both maps, the managers and the files as they were;
\* and a delete that follows a successful delete of the same path succeeds and
\* changes none of them.
C10_DeleteIdempotent ==
  /\ [][(/\ last'.op = "delete"
         /\ last'.path \notin DOMAIN singleInstancesByPath
         /\ last'.path \notin files)
          => (/\ last'.res = "success"
              /\ UNCHANGED <<databaseId, databaseMap, singleInstancesByPath,
                             mgr, files>>)]_vars
  /\ [][(/\ last.op = "delete" /\ last.res = "success"
         /\ last'.op = "delete" /\ last'.path = last.path)
          => (/\ last'.res = "success"
              /\ UNCHANGED <<databaseId, databaseMap, singleInstancesByPath,
                             mgr, files>>)]_vars

\* a delete found nothing to do for a path that an untracked handle has open
C10_Witness ==
  /\ last.op = "delete"
  /\ last.res = "success"
  /\ ~last.closeErr
  /\ last.path \notin files
  /\ last.path \notin DOMAIN singleInstancesByPath
  /\ \E h \in DOMAIN databaseMap : mgr[databaseMap[h]].path = last.path


\* C11: a new open calls open() when readOnly is false and openReadOnly() when
\* it is true, and the manager it registers is in the mode asked for; a
\* recovered open calls neither.
C11_OpenModeAsRequested ==
  [][last'.op = "open"
       => (/\ last'.native = "none" => last'.mode = "none"
           /\ last'.native # "none"
                => last'.mode = (IF last'.readOnly THEN "openReadOnly" ELSE "open")
           /\ last'.native = "opened"
                => mgr'[databaseMap'[OpenedId(last')]].readOnly = last'.readOnly)
    ]_vars

\* a read-only open of a file succeeded while the same file is open read-write
C11_Witness ==
  /\ IsNewOpen(last)
  /\ last.readOnly
  /\ last.mode = "openReadOnly"
  /\ \E h \in DOMAIN databaseMap :
       /\ mgr[databaseMap[h]].path = last.path
       /\ ~mgr[databaseMap[h]].readOnly

\* C12 as stated: the error of an open that the engine rejected carries the
\* engine's code and message.
C12_OpenErrorCarriesNative ==
  (last.op = "open" /\ last.native = "open_failed")
    => (last.res = "error" /\ last.err = "native")

\* whether the call reached a manager (the handle was registered)
Reached(c) == c.res # "none" /\ c.err # "database_closed"

\* whether an operation raises a database error: its statement fails, or the
\* follow-up query of an insert or update that wants a result fails
OpRaises(method, eng, noResult) ==
  \/ ~eng.exec
  \/ method \in {"insert", "update"} /\ ~noResult /\ ~eng.follow

\* C13: an insert that wants a result and whose follow-up query reports
\* changes() = 0 returns null; it returns a number exactly when changes() > 0.
C13_InsertNoRowNoId ==
  [][(/\ last'.op = "insert"
      /\ last'.id \in DOMAIN databaseMap
      /\ ~last'.noResult
      /\ ~OpRaises("insert", last'.eng, FALSE))
       => (/\ last'.res = "success"
           /\ last'.eng.changes = 0 => last'.value = Null
           /\ last'.value.k = "int64" <=> last'.eng.changes > 0)]_vars

\* an insert changed no row while last_insert_rowid() was not 0
C13_Witness ==
  /\ last.op = "insert"
  /\ last.res = "success"
  /\ ~last.noResult
  /\ last.eng.changes = 0
  /\ last.eng.rowid # I64(0, 0)
  /\ last.value = Null
  /\ Len(last.ran) = 2

\* C14 as stated: an insert that wants a result and changed a row returns the
\* 64-bit value of last_insert_rowid() as the engine reported it.
C14_InsertReturnsRowId ==
  (/\ last.op = "insert"
   /\ last.res = "success"
   /\ ~last.noResult
   /\ last.eng.changes > 0)
    => last.value = Int64V(last.eng.rowid)

\* C15: an update that wants a result runs the caller's statement and then, on
\* the same manager, SELECT changes(); and returns its count; when the
\* caller's statement fails nothing else is run and the error is returned.
C15_UpdateReturnsChanges ==
  [][(/\ last'.op = "update"
      /\ last'.id \in DOMAIN databaseMap
      /\ ~last'.noResult)
       => LET m == databaseMap[last'.id]
              own == Ran(m, last'.sql, last'.params)
          IN /\ last'.eng.exec
                  => /\ last'.ran = <<own, Ran(m, CHANGES_SQL, <<>>)>>
                     /\ last'.eng.follow
                          => /\ last'.res = "success"
                             /\ last'.value = Int64V(FromInt32(last'.eng.changes))
             /\ ~last'.eng.exec
                  => /\ last'.ran = <<own>>
                     /\ last'.res = "error"
                     /\ last'.err = "native"]_vars

\* an update on the second of two open connections returned a count of 2
C15_Witness ==
  /\ last.op = "update"
  /\ last.res = "success"
  /\ last.value = Int64V(I64(0, 2))
  /\ \E h \in DOMAIN databaseMap : h < last.id
  /\ Len(last.ran) = 2
  /\ last.ran[2].mgr = databaseMap[last.id]

\* C16: an insert or update with noResult=true runs the caller's statement and
\* no other; when that statement succeeds the reply is a success with null.
C16_NoResultRunsOneStatement ==
  [][(/\ last'.op \in {"insert", "update"}
      /\ last'.id \in DOMAIN databaseMap
      /\ last'.noResult)
       => (/\ last'.ran = <<Ran(databaseMap[last'.id], last'.sql, last'.params)>>
           /\ last'.eng.exec => (last'.res = "success" /\ last'.value = Null)
           /\ ~last'.eng.exec => last'.res = "error")]_vars

\* an insert with noResult=true succeeded although the follow-up query would
\* have failed
C16_Witness ==
  /\ last.op = "insert"
  /\ last.noResult
  /\ ~last.eng.follow
  /\ last.res = "success"
  /\ last.value = Null
  /\ Len(last.ran) = 1


\* the operations of a batch call by position
OpRaisesAt(c, i) ==
  OpRaises(c.operations[i].method, c.operations[i].eng, c.noResult)
KnownAt(c, i) == c.operations[i].method \in BatchMethods
\* the first operation of the call that raises, reached through known methods
FirstFailure(c, i) ==
  /\ i \in 1..Len(c.operations)
  /\ KnownAt(c, i) /\ OpRaisesAt(c, i)
  /\ \A j \in 1..(i - 1) : KnownAt(c, j) /\ ~OpRaisesAt(c, j)
\* the statements of the call that carry the text of operation i
RanOf(c, i) == {k \in 1..Len(c.ran) : c.ran[k].sql = c.operations[i].sql}

\* C17: a batch with continueOnError=false whose operation i is the first to
\* raise replies with that error, with the SQL text and the arguments of
\* operation i as its data; the operations before i were run and none after i.
C17_BatchStopsAtFirstError ==
  [][(/\ last'.op = "batch"
      /\ last'.id \in DOMAIN databaseMap
      /\ ~last'.continueOnError)
       => \A i \in 1..Len(last'.operations) :
            FirstFailure(last', i)
              => (/\ last'.res = "error"
                  /\ last'.err = "native"
                  /\ last'.errSql = last'.operations[i].sql
                  /\ last'.errArgs = last'.operations[i].params
                  /\ \A j \in 1..i : RanOf(last', j) # {}
                  /\ \A j \in (i + 1)..Len(last'.operations) :
                       RanOf(last', j) = {})]_vars

\* the first of two operations raised and the second was not run
C17_Witness ==
  /\ last.op = "batch"
  /\ ~last.continueOnError
  /\ Len(last.operations) = 2
  /\ FirstFailure(last, 1)
  /\ KnownAt(last, 2)
  /\ last.res = "error"
  /\ last.errSql = "A"
  /\ RanOf(last, 2) = {}

\* every operation of the call has one of the four methods
AllKnown(c) == \A i \in 1..Len(c.operations) : KnownAt(c, i)

\* C18 as stated: a batch with continueOnError=true over execute, insert,
\* update and query operations returns a list with one result per operation.
C18_BatchOneResultPerOperation ==
  (/\ last.op = "batch"
   /\ Reached(last)
   /\ last.continueOnError
   /\ AllKnown(last))
    => (/\ last.res = "success"
        /\ last.value.k = "list"
        /\ Len(last.value.items) = Len(last.operations))

\* C18 (amended): such a batch runs every operation; with noResult=false it
\* returns a list with, at position i, the success result of operation i or
\* the error marker of operation i with its SQL text and arguments; with
\* noResult=true it returns a success with no list.
C18_BatchContinuesOnError ==
  [][(/\ last'.op = "batch"
      /\ last'.id \in DOMAIN databaseMap
      /\ last'.continueOnError
      /\ AllKnown(last'))
       => (/\ last'.res = "success"
           /\ \A i \in 1..Len(last'.operations) : RanOf(last', i) # {}
           /\ last'.noResult => last'.value = Null
           /\ ~last'.noResult
                => /\ last'.value.k = "list"
                   /\ Len(last'.value.items) = Len(last'.operations)
                   /\ \A i \in 1..Len(last'.operations) :
                        LET r == last'.value.items[i]
                        IN IF OpRaisesAt(last', i)
                           THEN /\ r.k = "operror"
                                /\ r.err = "native"
                                /\ r.errSql = last'.operations[i].sql
                                /\ r.errArgs = last'.operations[i].params
                           ELSE r.k = "opresult")]_vars

\* the first of two operations raised and the second was run and has a result
C18_Witness ==
  /\ last.op = "batch"
  /\ last.continueOnError
  /\ ~last.noResult
  /\ Len(last.operations) = 2
  /\ AllKnown(last)
  /\ OpRaisesAt(last, 1)
  /\ ~OpRaisesAt(last, 2)
  /\ last.res = "success"
  /\ Len(last.value.items) = 2
  /\ last.value.items[1].k = "operror"
  /\ last.value.items[2].k = "opresult"

\* an operation of the call that was run and raised
RaisedAt(c, i) ==
  /\ i \in 1..Len(c.operations)
  /\ \A j \in 1..i : KnownAt(c, j)
  /\ OpRaisesAt(c, i)
  /\ \A j \in 1..(i - 1) : c.continueOnError \/ ~OpRaisesAt(c, j)

\* C19 as stated: a call during which a database error was raised is answered
\* with that error: an error reply carrying the engine's message or, for a
\* batch, a result list holding the error marker; never a plain success.
C19_NoErrorSwallowed ==
  /\ (/\ last.op \in {"execute", "query", "insert", "update"}
      /\ Reached(last)
      /\ OpRaises(last.op, last.eng, last.noResult))
       => (last.res = "error" /\ last.err = "native")
  /\ (/\ last.op = "batch"
      /\ Reached(last)
      /\ AllKnown(last)
      /\ \E i \in 1..Len(last.operations) : RaisedAt(last, i))
       => \/ last.res = "error" /\ last.err = "native"
          \/ /\ last.res = "success"
             /\ last.value.k = "list"
             /\ \E k \in 1..Len(last.value.items) :
                  last.value.items[k].k = "operror"

\* C20 as stated: the error of a failing execute carries the SQL text and the
\* arguments of the call, with the engine's message.
C20_ExecuteErrorCarriesSql ==
  (last.op = "execute" /\ Reached(last) /\ ~last.eng.exec)
    => (/\ last.res = "error"
        /\ last.err = "native"
        /\ last.errSql = last.sql
        /\ last.errArgs = last.params)


\* C21 as stated: a query whose result set is empty returns the column names of
\* its statement with an empty row list, a response unlike that of a statement
\* with no columns.
C21_EmptyResultKeepsColumns ==
  (/\ last.op = "query"
   /\ last.res = "success"
   /\ last.eng.rows = <<>>
   /\ Len(last.eng.columns) > 0)
    => (/\ last.value.k = "map"
        /\ last.value.columns = last.eng.columns
        /\ last.value.rows = <<>>
        /\ last.value # QueryResponse(queryAsMapList, <<>>, <<>>))


\* the value a query response holds in the first column of its first row
FirstCell(c, asMapList) ==
  IF asMapList THEN c.value.items[1]["c"] ELSE c.value.rows[1][1]

\* C22: a value of each of the five kinds, bound as the parameter of a query
\* that selects it back, comes back as a value of the same kind equal to the
\* one bound; and the result encoding gives the five alternatives five kinds.
C22_TypedValueRoundTrip ==
  [][(last'.op = "query" /\ last'.sql = SELECT_PARAM_SQL /\ Reached(last'))
       => (/\ last'.res = "success"
           /\ FirstCell(last', queryAsMapList).k = last'.params[1].k
           /\ FirstCell(last', queryAsMapList) = last'.params[1]
           /\ \A a, b \in Kinds :
                a # b => DBResultVisitor(ReadColumn(BindParam(TypedValue(a)))).k
                           # DBResultVisitor(ReadColumn(BindParam(TypedValue(b)))).k)
    ]_vars

\* a blob came back in the rows of a map-list response
C22_Witness ==
  /\ last.op = "query"
  /\ last.sql = SELECT_PARAM_SQL
  /\ last.res = "success"
  /\ queryAsMapList
  /\ last.params[1].k = "uint8list"
  /\ FirstCell(last, TRUE) = [k |-> "uint8list", v |-> <<1, 2>>]


\* C23: while a manager has a cached statement that is not finalized, its
\* native connection is open: in the destructor the connection is closed only
\* after the last statement is finalized, and a manager the registry owns is
\* connected.
C23_FinalizeBeforeClose ==
  /\ (dtor.obj # 0 /\ dtor.stmts # {}) => dtor.connected
  /\ \A m \in DOMAIN stmtCache :
       stmtCache[m] # {} => (m \in DOMAIN mgr /\ mgr[m].sqliteDatabase)

\* the connection of a manager that had two cached statements has been closed
C23_Witness ==
  /\ dtor.obj # 0
  /\ ~dtor.connected
  /\ dtor.stmts = {}
  /\ Cardinality(dtor.cached) = 2


\* the handles whose entry a close or a delete has erased
Closed == closedHandles \cup deletedHandles

\* C24: execute, query and close succeed only on a handle that an open has
\* returned and no close or delete has erased; a handle once erased is never
\* registered again, and no open, of the same path or another, returns it.
C24_ClosedIsTerminal ==
  /\ [][(last'.op \in {"execute", "query", "close"} /\ last'.res = "success")
          => (/\ last'.id \in returned
              /\ last'.id \in DOMAIN databaseMap
              /\ last'.id \notin Closed)]_vars
  /\ [][(last'.op = "open" /\ last'.res = "success")
          => OpenedId(last') \notin Closed]_vars
  /\ [](\A h \in Closed : h \notin DOMAIN databaseMap)

\* a query on a closed handle failed after its path had been opened again
C24_Witness ==
  /\ last.op = "query"
  /\ last.id \in closedHandles
  /\ ClosedReply(last)
  /\ \E h \in DOMAIN databaseMap :
       /\ h > last.id
       /\ mgr[databaseMap[h]].singleInstance
       /\ mgr[databaseMap[h]].path \in files


\* C25: while the permission check denies, a call gets the
\* permission-not-allowed error; no statement is run and no native open made,
\* and the id counter, the handle map, the path map, the managers, their
\* statement caches and the files stay as they were.
C25_DeniedCallDoesNothing ==
  [][(permission = "deny" /\ permission' = "deny")
       => (/\ UNCHANGED <<databaseId, databaseMap, singleInstancesByPath, mgr,
                          files, stmtCache, dtor>>
           /\ last' # last
                => (/\ last'.res = "error"
                    /\ last'.err = "permission_not_allowed"
                    /\ last'.ran = <<>>
                    /\ last'.native = "none"))]_vars

\* the close of a registered single-instance handle was denied
C25_Witness ==
  /\ permission = "deny"
  /\ last.op = "close"
  /\ last.err = "permission_not_allowed"
  /\ last.id \in DOMAIN databaseMap
  /\ mgr[databaseMap[last.id]].singleInstance
  /\ stmtCache[databaseMap[last.id]] # {}


\* two live managers made for one single-instance path
TwoLiveForOnePath ==
  \E a, b \in DOMAIN mgr :
    /\ a # b
    /\ mgr[a].singleInstance /\ mgr[b].singleInstance
    /\ mgr[a].path = mgr[b].path
    /\ mgr[a].sqliteDatabase /\ mgr[b].sqliteDatabase
\* a manager registered under a handle other than the id it was made with
RegisteredUnderOtherHandle ==
  \E h \in DOMAIN databaseMap : mgr[databaseMap[h]].id # h

\* C26: a state with two live managers for one single-instance path, or with
\* a manager registered under a handle that is not its id, is reached only
\* when a step of one open call fell inside another open call; runs whose
\* calls follow one another never reach it.
C26_UnsafeOnlyWhenInterleaved ==
  (TwoLiveForOnePath \/ RegisteredUnderOtherHandle) => threads.overlapped

\* both at once: thread 1 registered its manager under the id thread 2 had
\* allocated, and thread 2 has made a second manager for the same path
C26_Witness ==
  /\ TwoLiveForOnePath
  /\ RegisteredUnderOtherHandle
  /\ threads.overlapped


\* the destructor of the manager that had this id has not finished: cached
\* statements are still to be finalized or the connection is still open
StillBeingDestroyed(id) ==
  /\ dtor.obj = id
  /\ dtor.connected \/ dtor.stmts # {}

\* C27: when close has reported Success for a handle, the manager that was
\* registered under it is already destroyed: its statements are finalized and
\* its connection is closed.
C27_DestroyedWhenCloseReports ==
  (last.op = "close" /\ last.res = "success") =>
    /\ last.id \notin DOMAIN mgr
    /\ ~StillBeingDestroyed(last.id)


\* the handles of the registered single-instance managers of a path
SingleInstanceHandles(path) ==
  {h \in DOMAIN databaseMap :
     mgr[databaseMap[h]].singleInstance /\ mgr[databaseMap[h]].path = path}

\* C28: every entry path -> h of singleInstancesByPath has h in databaseMap,
\* registered for a manager with that path and singleInstance set; every
\* registered single-instance manager has the entry of its path, and the entry
\* holds its own handle; so a path has at most one registered single-instance
\* manager.
C28_RegistryConsistent ==
  /\ \A path \in DOMAIN singleInstancesByPath :
       /\ singleInstancesByPath[path] \in DOMAIN databaseMap
       /\ singleInstancesByPath[path] \in SingleInstanceHandles(path)
  /\ \A h \in DOMAIN databaseMap :
       mgr[databaseMap[h]].singleInstance =>
         /\ mgr[databaseMap[h]].path \in DOMAIN singleInstancesByPath
         /\ singleInstancesByPath[mgr[databaseMap[h]].path] = h
  /\ \A path \in Paths : Cardinality(SingleInstanceHandles(path)) <= 1

\* after a close, a path has its entry for the single-instance manager of a
\* later handle while an earlier handle is gone
C28_Witness ==
  /\ last.op = "close"
  /\ last.res = "success"
  /\ \E path \in DOMAIN singleInstancesByPath :
       /\ singleInstancesByPath[path] > last.id
       /\ SingleInstanceHandles(path) = {singleInstancesByPath[path]}


\* C29: every entry h -> m of databaseMap has m.id = h; and the handle in the
\* reply of an open that made a new manager is the id that manager was
\* constructed with, and is the handle it is registered under.
C29_HandleIsManagerId ==
  /\ [](\A h \in DOMAIN databaseMap : mgr[databaseMap[h]].id = h)
  /\ [][IsNewOpen(last') =>
          /\ OpenedId(last') \notin DOMAIN databaseMap
          /\ OpenedId(last') \in DOMAIN databaseMap'
          /\ mgr'[databaseMap'[OpenedId(last')]].id = OpenedId(last')]_vars

\* a second manager was made and registered after the first handle was closed
C29_Witness ==
  /\ IsNewOpen(last)
  /\ OpenedId(last) > 1
  /\ DOMAIN databaseMap = {OpenedId(last)}
  /\ mgr[databaseMap[OpenedId(last)]].id = OpenedId(last)
  /\ closedHandles # {}


\* C30: a single-instance open of a path that has an entry in
\* singleInstancesByPath is answered with that entry's handle and
\* recovered = true for either value of readOnly: no native open is made in
\* any mode, and the manager keeps the mode it was opened in.
C30_RecoveryIgnoresReadOnly ==
  [][(/\ last'.op = "open"
      /\ last'.single
      /\ last'.path # MEMORY_DATABASE_PATH
      /\ last'.path \in DOMAIN singleInstancesByPath)
       => (/\ IsRecoveredOpen(last')
           /\ OpenedId(last') = singleInstancesByPath[last'.path]
           /\ last'.mode = "none"
           /\ mgr'[databaseMap'[OpenedId(last')]].readOnly
                = mgr[databaseMap[OpenedId(last')]].readOnly)]_vars

\* an open with readOnly = true got the handle of a read-write connection
C30_Witness ==
  /\ IsRecoveredOpen(last)
  /\ last.readOnly
  /\ ~mgr[databaseMap[OpenedId(last)]].readOnly


\* the registered handles on a path whose managers were opened with
\* singleInstance = false
UntrackedHandles(path) ==
  {h \in DOMAIN databaseMap :
     mgr[databaseMap[h]].path = path /\ ~mgr[databaseMap[h]].singleInstance}

\* C31: a delete of a path leaves every handle opened on that path with
\* singleInstance = false registered, for the same manager, still open; and an
\* execute or a query with a registered handle whose file is gone is run on
\* the handle's manager and is not answered with the database-closed error.
C31_DeleteKeepsUntrackedHandles ==
  /\ [][last'.op = "delete" =>
          \A h \in UntrackedHandles(last'.path) :
            /\ h \in DOMAIN databaseMap'
            /\ databaseMap'[h] = databaseMap[h]
            /\ databaseMap[h] \in DOMAIN mgr'
            /\ mgr'[databaseMap[h]] = mgr[databaseMap[h]]
            /\ mgr'[databaseMap[h]].sqliteDatabase]_vars
  /\ [][(/\ last'.op \in {"execute", "query"}
         /\ last'.id \in DOMAIN databaseMap
         /\ mgr[databaseMap[last'.id]].path \notin files)
          => (/\ ~ClosedReply(last')
              /\ Len(last'.ran) > 0
              /\ \A i \in 1..Len(last'.ran) :
                   last'.ran[i].mgr = databaseMap[last'.id])]_vars

\* a query succeeded on a handle opened with singleInstance = false, after a
\* delete had erased the tracked handle of its path and removed the file
C31_Witness ==
  /\ last.op = "query"
  /\ last.res = "success"
  /\ last.id \in DOMAIN databaseMap
  /\ ~mgr[databaseMap[last.id]].singleInstance
  /\ mgr[databaseMap[last.id]].path \notin files
  /\ mgr[databaseMap[last.id]].path # MEMORY_DATABASE_PATH
  /\ deletedHandles # {}
  /\ singleInstancesByPath = EmptyMap


\* operation i of the call is the first with a method the batch does not
\* know, and the loop gets to it: the operations before it are known and none
\* of them ended the batch
UnknownAt(c, i) ==
  /\ i \in 1..Len(c.operations)
  /\ ~KnownAt(c, i)
  /\ \A j \in 1..(i - 1) :
       KnownAt(c, j) /\ (c.continueOnError \/ ~OpRaisesAt(c, j))

\* C32: a batch that gets to an operation with a method other than execute,
\* insert, query and update is answered with not-implemented, for either value
\* of continueOnError; the reply carries no result list, and no statement of
\* that operation or of a later one is run.
C32_BatchUnknownMethodEnds ==
  \A i \in 1..Len(last.operations) :
    (/\ last.op = "batch"
     /\ Reached(last)
     /\ UnknownAt(last, i))
    => (/\ last.res = "not_implemented"
        /\ last.value = Null
        /\ \A j \in i..Len(last.operations) : RanOf(last, j) = {})

\* with continueOnError = true, a batch whose first operation was run and
\* collected ended at its second operation, of an unknown method
C32_Witness ==
  /\ last.op = "batch"
  /\ last.continueOnError
  /\ ~last.noResult
  /\ UnknownAt(last, 2)
  /\ ~OpRaisesAt(last, 1)
  /\ RanOf(last, 1) # {}
  /\ last.res = "not_implemented"


\* The engine's transactions: a statement is undone when a ROLLBACK follows it
\* inside the transaction a BEGIN before it opened; outside a transaction
\* every statement that succeeded is in effect at once.
TransactionSql == {BEGIN_SQL, COMMIT_SQL, ROLLBACK_SQL}
RolledBack(ran, k) ==
  \E b \in 1..(k - 1), r \in (k + 1)..Len(ran) :
    /\ ran[b].sql = BEGIN_SQL
    /\ ran[r].sql = ROLLBACK_SQL
    /\ \A m \in (b + 1)..(r - 1) : ran[m].sql \notin TransactionSql
\* the texts of the statements of a run that are in effect after it
InEffect(ran) ==
  {ran[k].sql : k \in {m \in 1..Len(ran) :
                         ran[m].sql \notin TransactionSql /\ ~RolledBack(ran, m)}}

\* the batch ended early at operation k
AbortedAt(c, k) ==
  \/ UnknownAt(c, k)
  \/ FirstFailure(c, k) /\ ~c.continueOnError

\* C33: when a batch ends early at operation k, the batch has run no BEGIN,
\* COMMIT or ROLLBACK, and the statement of every operation before k that the
\* engine accepted is in effect.
C33_BatchNotAtomic ==
  \A k \in 1..Len(last.operations) :
    (/\ last.op = "batch"
     /\ Reached(last)
     /\ AbortedAt(last, k))
    => (/\ last.res \in {"error", "not_implemented"}
        /\ \A m \in 1..Len(last.ran) : last.ran[m].sql \notin TransactionSql
        /\ \A j \in 1..(k - 1) :
             last.operations[j].eng.exec
               => last.operations[j].sql \in InEffect(last.ran))

\* a batch with continueOnError = false ended with the error of its second
\* operation after its first, an update, had been applied
C33_Witness ==
  /\ last.op = "batch"
  /\ ~last.continueOnError
  /\ FirstFailure(last, 2)
  /\ last.res = "error"
  /\ last.operations[1].method = "update"
  /\ last.operations[1].eng.exec
  /\ last.operations[1].sql \in InEffect(last.ran)


\* the callbacks the call in progress has invoked
Invocations == request.on_success + request.on_failure

\* C34: a call of RequestPermssion that has returned has invoked exactly one
\* of on_success and on_failure, once, and a call that has not returned has
\* invoked neither; a call whose request was accepted has returned only with
\* the response received; and a call whose response has been received does
\* return.
C34_OneCallbackAfterResponse ==
  /\ [](request.pc = "returned" => Invocations = 1)
  /\ [](request.pc = "waiting" => Invocations = 0)
  /\ []((/\ request.pc = "returned"
         /\ request.ret = PRIVACY_PRIVILEGE_MANAGER_ERROR_NONE)
          => request.received)
  /\ (request.received ~> request.pc = "returned")

\* the loop went round MaxIterations times before the response came, and the
\* call then returned through on_success
C34_Witness ==
  /\ request.pc = "returned"
  /\ request.received
  /\ request.iterations = MaxIterations
  /\ request.on_success = 1
  /\ request.on_failure = 0

\* C35 as stated: the TizenResult that RequestPermssion passes to on_failure
\* denotes an error.
C35_FailureCarriesError ==
  request.on_failure > 0 => IsError(request.failure)


====
